---- MODULE Spec2Model ----
(***************************************************************************)
(* Model of the embedded terminal of sysengn.                              *)
(*                                                                         *)
(*   core/shell.py            ShellManager: the pty, the child shell, the  *)
(*                            reader thread, write() and close().          *)
(*   ui/components/terminal.py TerminalComponent: did_mount / will_unmount *)
(*                            and the hand-off of output chunks to the UI  *)
(*                            event loop (_on_shell_output).               *)
(*                                                                         *)
(* Every statement of ShellManager that reads or writes a shared attribute *)
(* (running, master_fd, process) is one step, because the class holds no   *)
(* lock: the host threads, the reader thread and the child interleave at   *)
(* that grain.  Time is abstracted: a call with a timeout (select 0.1 s,   *)
(* wait 0.2 s, join 0.5 s) may come back by its timeout.                   *)
(***************************************************************************)
EXTENDS Integers, Sequences, FiniteSets, TLC

\* ---------------------------------------------------------------- bounds
MaxEmit == 1        \* bytes the child emits in a run of the session alone
MaxChunks == 2      \* bytes the child emits in a run of the terminal component
MaxCalls == 2       \* host calls (write / close / will_unmount) in one run
HistoryCap == 2     \* rows the scroll history keeps (history=, terminal.py 19)

Callers == {"t1", "t2"}            \* host threads calling into the session
None == "None"
Fd == "fd"                         \* a master descriptor select() accepts
FdBig == "fdbig"                   \* one at or above FD_SETSIZE
Proc == "proc"                     \* the Popen object
Thr == "thr"                       \* the Thread object
Diag == <<0>>                      \* the text of a diagnostic message
\* no keyboard event yet
NoEvent == [key |-> <<>>, ctrl |-> FALSE, shift |-> FALSE, alt |-> FALSE]

VARIABLES
    \* ShellManager attributes (shell.py 26-31)
    running, master_fd, process, thread,
    \* operating system: the pty pair and the child
    masterOpen, slaveOpen, child, sigterm, sigkill, produced, buf,
    nSpawn, nThread,
    \* the reader thread (_read_loop)
    rpc, rsel, rdata, rcause, readLog, readerDiag,
    \* the host threads
    pc, op, diagN, afterClosed, afterEof, ncalls, closedOnce, closeCalled,
    \* TerminalComponent and the UI event loop
    spc, shell, kb, page, ustate, cbLog, taskQ, fedLog, nActive,
    \* TerminalComponent: focus and the last keyboard event
    focused, kev, kdata, kwrites,
    \* TerminalComponent: geometry, the pyte screen, the rendered lines; the
    \* window size the pty has; the outcome of the last handle_resize and
    \* whether an update_ui task has raised
    cols, rows, screen, buffer_lines, history_lines, winsize, hres, uerr,
    \* the arguments of the last handle_resize; the rows whose line control
    \* the last _update_display gave new spans
    hargs, redrawn,
    \* the bytes the child shell writes in this run
    script

shellVars == <<running, master_fd, process, thread>>
osVars == <<masterOpen, slaveOpen, child, sigterm, sigkill, produced, buf, nSpawn, nThread>>
readerVars == <<rpc, rsel, rdata, rcause, readLog, readerDiag>>
callerVars == <<pc, op, diagN, afterClosed, afterEof, ncalls, closedOnce, closeCalled>>
keyVars == <<focused, kev, kdata, kwrites>>
scrVars == <<cols, rows, screen, buffer_lines, history_lines, winsize, hres, uerr,
             hargs, redrawn>>
uiVars == <<keyVars, scrVars, script>>
termVars == <<spc, shell, kb, page, ustate, cbLog, taskQ, fedLog, nActive, uiVars>>
vars == <<shellVars, osVars, readerVars, callerVars, termVars>>

\* ------------------------------------------------------------- helpers
\* The secondary side has no holder left: the child is gone and the parent
\* has closed its copy.  select() then reports the master readable and
\* os.read raises EIO (or returns b"" on platforms that report EOF).
Hangup == child \in {"exited", "reaped"} /\ ~slaveOpen

\* Variant of OnShellOutput: the newest task is run first.
OnShellOutputNewestFirst(text) ==
    /\ cbLog' = Append(cbLog, text)
    /\ taskQ' = IF page THEN <<text>> \o taskQ ELSE taskQ

\* on_output(text) with on_output = TerminalComponent._on_shell_output:
\* nothing when the component has no page, else one update_ui task is
\* handed to the page's event loop.
OnShellOutput(text) ==
    /\ cbLog' = Append(cbLog, text)
    /\ taskQ' = IF page THEN Append(taskQ, text) ELSE taskQ

\* ------------------------------------------ the reader's decode step
\* bytes.decode("utf-8", errors="replace") of shell.py line 98.  A byte
\* sequence that is not well-formed UTF-8 gives U+FFFD: one for a byte that
\* cannot start a character, one for a character cut short (by a byte that
\* cannot continue it or by the end of the chunk), after which decoding
\* goes on at the first byte not consumed.
Replacement == 65533
Utf8Need(b1) ==
    IF b1 < 128 THEN 0
    ELSE IF b1 \in 194..223 THEN 1
    ELSE IF b1 \in 224..239 THEN 2
    ELSE IF b1 \in 240..244 THEN 3
    ELSE -1
Utf8ContOk(b, k) ==
    /\ k <= Len(b)
    /\ b[k] >= (IF k = 2 /\ b[1] = 224 THEN 160
                ELSE IF k = 2 /\ b[1] = 240 THEN 144 ELSE 128)
    /\ b[k] <= (IF k = 2 /\ b[1] = 237 THEN 159
                ELSE IF k = 2 /\ b[1] = 244 THEN 143 ELSE 191)
\* The first character of the non-empty byte sequence b, and the number of
\* bytes it takes.
Utf8DecodeOne(b) ==
    LET need == Utf8Need(b[1])
        good == Cardinality({k \in 2..(need + 1) :
                               \A j \in 2..k : Utf8ContOk(b, j)})
    IN  IF need = -1 THEN [cp |-> Replacement, n |-> 1]
        ELSE IF good < need THEN [cp |-> Replacement, n |-> 1 + good]
        ELSE IF need = 0 THEN [cp |-> b[1], n |-> 1]
        ELSE IF need = 1
           THEN [cp |-> (b[1] - 192) * 64 + (b[2] - 128), n |-> 2]
        ELSE IF need = 2
           THEN [cp |-> (b[1] - 224) * 4096 + (b[2] - 128) * 64 + (b[3] - 128),
                 n |-> 3]
        ELSE [cp |-> (b[1] - 240) * 262144 + (b[2] - 128) * 4096
                       + (b[3] - 128) * 64 + (b[4] - 128),
              n |-> 4]

RECURSIVE Utf8Decode(_)
Utf8Decode(b) ==
    IF b = <<>> THEN <<>>
    ELSE LET r == Utf8DecodeOne(b)
         IN  <<r.cp>> \o Utf8Decode(SubSeq(b, r.n + 1, Len(b)))

\* ----------------------------------- the screen: pyte.HistoryScreen, Stream
\* The screen and its stream are pyte objects (terminal.py lines 19-20).
\* A cell is a Char (data, fg); a line maps the columns written so far to
\* their cells, as pyte's sparse lines do; the buffer maps every row to its
\* line; top is history.top, the rows scrolled off, oldest first.  The
\* outputs of a run hold printable characters, LF, CR, ESC and CSI
\* sequences; of the control functions SGR is the one that is followed.
Min(a, b) == IF a < b THEN a ELSE b
Max(a, b) == IF a > b THEN a ELSE b
DefaultChar == [data |-> 32, fg |-> "default"]
FreshScreen(columns, lines) ==
    [columns |-> columns, lines |-> lines,
     buffer |-> [y \in 0..(lines - 1) |-> <<>>],
     cx |-> 0, cy |-> 0, fg |-> "default",
     top |-> <<>>, scrolled |-> <<>>,
     ps |-> "ground", params |-> <<>>, cur |-> -1]

RowAt(s, y) == IF y \in DOMAIN s.buffer THEN s.buffer[y] ELSE <<>>
LineSet(line, x, cell) ==
    [c \in DOMAIN line \cup {x} |-> IF c = x THEN cell ELSE line[c]]
BufferSet(buffer, y, line) ==
    [r \in DOMAIN buffer \cup {y} |-> IF r = y THEN line ELSE buffer[r]]

\* Variant of HistoryAppend: a full history drops the new row.
HistoryAppendKeepsOldest(top, line, cap) ==
    IF Len(top) >= cap THEN top ELSE Append(top, line)

\* history.top is a deque(maxlen=history): appending to a full one drops
\* its oldest entry.
HistoryAppend(top, line, cap) ==
    IF cap = 0 THEN <<>>
    ELSE IF Len(top) >= cap THEN Append(Tail(top), line)
    ELSE Append(top, line)

\* HistoryScreen.index: with the cursor on the last row the top row goes to
\* history.top, the rows move up and the last row is blank; else the cursor
\* moves down.  scrolled records every row that has left the top.
Index(s) ==
    LET bottom == s.lines - 1 IN
    IF s.cy = bottom
       THEN [s EXCEPT !.top = HistoryAppend(s.top, RowAt(s, 0), HistoryCap),
                      !.scrolled = Append(s.scrolled, RowAt(s, 0)),
                      !.buffer = [y \in 0..bottom |->
                                    IF y < bottom THEN RowAt(s, y + 1) ELSE <<>>]]
       ELSE [s EXCEPT !.cy = Min(s.cy + 1, bottom)]

CarriageReturn(s) == [s EXCEPT !.cx = 0]

\* Screen.draw of one character of width 1: at the right edge the line wraps
\* first (DECAWM is set); the cell takes the cursor's attributes.
Draw(s, ch) ==
    LET s1 == IF s.cx = s.columns THEN Index(CarriageReturn(s)) ELSE s IN
    [s1 EXCEPT !.buffer = BufferSet(s1.buffer, s1.cy,
                              LineSet(RowAt(s1, s1.cy), s1.cx,
                                      [data |-> ch, fg |-> s1.fg])),
               !.cx = Min(s1.cx + 1, s1.columns)]

\* graphics.FG_ANSI
FgAnsi(attr) ==
    CASE attr = 30 -> "black" [] attr = 31 -> "red" [] attr = 32 -> "green"
      [] attr = 33 -> "brown" [] attr = 34 -> "blue" [] attr = 35 -> "magenta"
      [] attr = 36 -> "cyan" [] attr = 37 -> "white" [] attr = 39 -> "default"

\* Screen.select_graphic_rendition: 0 resets, 30-37 and 39 set the
\* foreground, in the order given.
RECURSIVE SelectGraphicRendition(_, _)
SelectGraphicRendition(s, attrs) ==
    IF attrs = <<>> THEN s
    ELSE LET a == Head(attrs)
             s1 == IF a = 0 THEN [s EXCEPT !.fg = "default"]
                   ELSE IF a \in 30..37 \/ a = 39 THEN [s EXCEPT !.fg = FgAnsi(a)]
                   ELSE s
         IN  SelectGraphicRendition(s1, Tail(attrs))

\* The end of a CSI sequence: "m" is SGR; a final character with no handler
\* is ignored.
CsiDispatch(s, ch, params) ==
    IF ch = 109 THEN SelectGraphicRendition(s, params) ELSE s

\* One character through Stream's parser: text is drawn, LF/VT/FF and CR are
\* followed, ESC [ opens a CSI sequence whose parameters are collected up
\* to its final character; the state is kept between calls of feed.
FeedChar(s, ch) ==
    IF s.ps = "ground"
       THEN IF ch = 27 THEN [s EXCEPT !.ps = "escape"]
            ELSE IF ch = 155
               THEN [s EXCEPT !.ps = "csi", !.params = <<>>, !.cur = -1]
            ELSE IF ch \in {10, 11, 12} THEN Index(s)
            ELSE IF ch = 13 THEN CarriageReturn(s)
            ELSE IF ch \in {0, 127} THEN s
            ELSE Draw(s, ch)
    ELSE IF s.ps = "escape"
       THEN IF ch = 91
               THEN [s EXCEPT !.ps = "csi", !.params = <<>>, !.cur = -1]
               ELSE [s EXCEPT !.ps = "ground"]
    ELSE \* "csi"
         IF ch \in {10, 11, 12} THEN Index(s)
         ELSE IF ch = 13 THEN CarriageReturn(s)
         ELSE IF ch \in {32, 62, 63} THEN s
         ELSE IF ch \in {24, 26} THEN [s EXCEPT !.ps = "ground"]
         ELSE IF ch \in 48..57
            THEN [s EXCEPT !.cur = (IF s.cur = -1 THEN 0 ELSE s.cur) * 10 + (ch - 48)]
         ELSE LET params == Append(s.params, Min(Max(s.cur, 0), 9999)) IN
              IF ch = 59
                 THEN [s EXCEPT !.params = params, !.cur = -1]
                 ELSE [CsiDispatch(s, ch, params) EXCEPT
                          !.ps = "ground", !.params = <<>>, !.cur = -1]

\* Stream.feed(text)
RECURSIVE StreamFeed(_, _)
StreamFeed(s, text) ==
    IF text = <<>> THEN s ELSE StreamFeed(FeedChar(s, Head(text)), Tail(text))

\* Screen.resize(lines, columns): with fewer lines the rows at the top are
\* deleted (delete_lines at the home position, the cursor put back after);
\* with fewer columns the cells past the edge are dropped.  history is not
\* touched.
ScreenResize(s, lines, columns) ==
    IF lines = s.lines /\ columns = s.columns THEN s
    ELSE LET count == IF lines < s.lines THEN s.lines - lines ELSE 0
             cut(line) == IF columns < s.columns
                             THEN [c \in {x \in DOMAIN line : x < columns} |-> line[c]]
                             ELSE line
         IN  [s EXCEPT !.buffer = [y \in 0..(lines - 1) |->
                                     cut(RowAt(s, y + count))],
                       !.cx = IF count > 0 THEN Min(s.cx, s.columns - 1) ELSE s.cx,
                       !.lines = lines, !.columns = columns]

\* ------------------------------------------------------------ the renderer
\* the spans of a Text that was never rendered (None)
NoSpans == <<[text |-> <<>>, color |-> "None"]>>
NoColor == "None"
\* Variant of MapColor: the pyte colour names are passed on as they are.
MapColorAsNamed(color) == color

\* _map_color, lines 315-330, with the values of ft.Colors
MapColor(color) ==
    IF color = "default" THEN "white"
    ELSE CASE color = "black" -> "white"
           [] color = "red" -> "red"
           [] color = "green" -> "green"
           [] color = "brown" -> "yellow"
           [] color = "blue" -> "blue"
           [] color = "magenta" -> "purple"
           [] color = "cyan" -> "cyan"
           [] color = "white" -> "white"
           [] OTHER -> "white"

Flush(acc) ==
    IF acc.text # <<>>
       THEN Append(acc.spans, [text |-> acc.text, color |-> acc.fg])
       ELSE acc.spans

\* Variant of RenderFrom: every cell gets a span of its own.
RECURSIVE RenderFromNoMerge(_, _, _, _)
RenderFromNoMerge(line, x, ncols, acc) ==
    IF x >= ncols THEN Flush(acc)
    ELSE LET char == IF x \in DOMAIN line THEN line[x] ELSE DefaultChar
             fg == MapColor(char.fg)
         IN  RenderFromNoMerge(line, x + 1, ncols,
                               [spans |-> Flush(acc), text |-> <<char.data>>,
                                fg |-> fg])

\* the loop of _render_line_data, lines 280-301, from column x on
RECURSIVE RenderFrom(_, _, _, _)
RenderFrom(line, x, ncols, acc) ==
    IF x >= ncols THEN Flush(acc)
    ELSE LET char == IF x \in DOMAIN line THEN line[x] ELSE DefaultChar
             fg == MapColor(char.fg)
         IN  IF fg # acc.fg
                THEN RenderFrom(line, x + 1, ncols,
                                [spans |-> Flush(acc), text |-> <<char.data>>,
                                 fg |-> fg])
                ELSE RenderFrom(line, x + 1, ncols,
                                [acc EXCEPT !.text = Append(@, char.data)])

\* _render_line_data(line), lines 263-309
RenderLineData(line, ncols) ==
    RenderFrom(line, 0, ncols, [spans |-> <<>>, text |-> <<>>, fg |-> NoColor])

\* ---------------------------------------------------------------- Init
\* A ShellManager not yet constructed, in a component that has just been
\* added to its page: did_mount is about to run.
SessionInit ==
    /\ running = FALSE /\ master_fd = None /\ process = None /\ thread = None
    /\ masterOpen = FALSE /\ slaveOpen = FALSE /\ child = "none"
    /\ sigterm = FALSE /\ sigkill = FALSE /\ produced = 0 /\ buf = <<>>
    /\ nSpawn = 0 /\ nThread = 0
    /\ rpc = "unstarted" /\ rsel = FALSE /\ rdata = <<>> /\ rcause = "none"
    /\ readLog = <<>> /\ readerDiag = 0
    /\ pc = [c \in Callers |-> "idle"] /\ op = [c \in Callers |-> "none"]
    /\ diagN = [c \in Callers |-> 0]
    /\ afterClosed = [c \in Callers |-> FALSE]
    /\ afterEof = [c \in Callers |-> FALSE]
    /\ ncalls = 0 /\ closedOnce = FALSE /\ closeCalled = FALSE
    /\ spc = "openpty" /\ shell = FALSE /\ kb = FALSE /\ page = TRUE
    /\ ustate = "no" /\ cbLog = <<>> /\ taskQ = <<>> /\ fedLog = <<>>
    /\ nActive = 0

\* TerminalComponent.__init__(cols=c, rows=r), lines 13-52: a blank screen,
\* one Text control per row, no history line, no focus.
ComponentInit(c, r) ==
    /\ cols = c /\ rows = r
    /\ screen = FreshScreen(c, r)
    /\ buffer_lines = [i \in 1..r |-> NoSpans] /\ history_lines = <<>>
    /\ winsize = <<0, 0>> /\ hres = "none" /\ uerr = FALSE /\ hargs = <<>>
    /\ redrawn = {}
    /\ focused = FALSE /\ kev = NoEvent /\ kdata = <<>> /\ kwrites = <<>>

\* The output of a shell that prints letters: "a", "b", ...
Letters == [i \in 1..MaxChunks |-> 96 + i]

\* A 10 x 5 terminal whose shell prints letters.
Init == SessionInit /\ ComponentInit(10, 5) /\ script = Letters

\* ------------------------------------------- did_mount / _start_process
\* pty.openpty(): both descriptors open; master_fd is the primary one.
OpenPty ==
    /\ spc = "openpty"
    /\ \E f \in {Fd, FdBig} : master_fd' = f
    /\ masterOpen' = TRUE /\ slaveOpen' = TRUE
    /\ spc' = "popen"
    /\ UNCHANGED <<running, process, thread, child, sigterm, sigkill, produced,
                   buf, nSpawn, nThread, readerVars, callerVars, shell, kb,
                   page, ustate, cbLog, taskQ, fedLog, nActive>>
    /\ UNCHANGED uiVars

\* subprocess.Popen(...) succeeds: the child runs in its own session.
PopenOk ==
    /\ spc = "popen"
    /\ process' = Proc /\ child' = "alive" /\ nSpawn' = nSpawn + 1
    /\ spc' = "set_running"
    /\ UNCHANGED <<running, master_fd, thread, masterOpen, slaveOpen, sigterm,
                   sigkill, produced, buf, nThread, readerVars, callerVars,
                   shell, kb, page, ustate, cbLog, taskQ, fedLog, nActive>>
    /\ UNCHANGED uiVars

\* subprocess.Popen(...) raises: control goes to the finally clause.
PopenFail ==
    /\ spc = "popen"
    /\ spc' = "close_slave_err"
    /\ UNCHANGED <<shellVars, osVars, readerVars, callerVars, shell, kb, page,
                   ustate, cbLog, taskQ, fedLog, nActive>>
    /\ UNCHANGED uiVars

SetRunning ==
    /\ spc = "set_running"
    /\ running' = TRUE
    /\ spc' = "thread_start"
    /\ UNCHANGED <<master_fd, process, thread, osVars, readerVars, callerVars,
                   shell, kb, page, ustate, cbLog, taskQ, fedLog, nActive>>
    /\ UNCHANGED uiVars

\* threading.Thread(target=self._read_loop, daemon=True).start()
ThreadStart ==
    /\ spc = "thread_start"
    /\ thread' = Thr /\ nThread' = nThread + 1
    /\ rpc' = "entry"
    /\ spc' = "close_slave"
    /\ UNCHANGED <<running, master_fd, process, masterOpen, slaveOpen, child,
                   sigterm, sigkill, produced, buf, nSpawn, rsel, rdata,
                   rcause, readLog, readerDiag, callerVars, shell, kb, page,
                   ustate, cbLog, taskQ, fedLog, nActive>>
    /\ UNCHANGED uiVars

\* Variant of CloseSlave: the descriptor is closed after a successful start
\* only (no finally clause).
CloseSlaveOnSuccessOnly ==
    /\ spc \in {"close_slave", "close_slave_err"}
    /\ slaveOpen' = (spc = "close_slave_err")
    /\ spc' = IF spc = "close_slave" THEN "assign" ELSE "failed"
    /\ UNCHANGED <<shellVars, masterOpen, child, sigterm, sigkill, produced,
                   buf, nSpawn, nThread, readerVars, callerVars, shell, kb,
                   page, ustate, cbLog, taskQ, fedLog, nActive>>
    /\ UNCHANGED uiVars

\* finally: os.close(slave_fd), on the normal and on the failing path.
CloseSlave ==
    /\ spc \in {"close_slave", "close_slave_err"}
    /\ slaveOpen' = FALSE
    /\ spc' = IF spc = "close_slave" THEN "assign" ELSE "failed"
    /\ UNCHANGED <<shellVars, masterOpen, child, sigterm, sigkill, produced,
                   buf, nSpawn, nThread, readerVars, callerVars, shell, kb,
                   page, ustate, cbLog, taskQ, fedLog, nActive>>
    /\ UNCHANGED uiVars

\* did_mount: self.shell = <the new ShellManager>; then the keyboard handler.
AssignShell ==
    /\ spc = "assign"
    /\ shell' = TRUE
    /\ spc' = "install_kb"
    /\ UNCHANGED <<shellVars, osVars, readerVars, callerVars, kb, page, ustate,
                   cbLog, taskQ, fedLog, nActive>>
    /\ UNCHANGED uiVars

InstallKb ==
    /\ spc = "install_kb"
    /\ kb' = IF page THEN TRUE ELSE kb
    /\ spc' = "done"
    /\ UNCHANGED <<shellVars, osVars, readerVars, callerVars, shell, page,
                   ustate, cbLog, taskQ, fedLog, nActive>>
    /\ UNCHANGED uiVars

DidMount ==
    \/ OpenPty \/ PopenOk \/ PopenFail \/ SetRunning \/ ThreadStart
    \/ CloseSlave \/ AssignShell \/ InstallKb

\* ------------------------------------------------------------ the child
\* The shell writes the next byte of its output to the secondary side,
\* `max` bytes in all.
ChildEmit(max) ==
    /\ child = "alive" /\ produced < max /\ produced < Len(script)
    /\ produced' = produced + 1
    /\ buf' = Append(buf, script[produced + 1])
    /\ UNCHANGED <<shellVars, masterOpen, slaveOpen, child, sigterm, sigkill,
                   nSpawn, nThread, readerVars, callerVars, termVars>>

\* The shell exits: by itself, on SIGTERM, or on SIGKILL.
ChildExit ==
    /\ child = "alive"
    /\ child' = "exited"
    /\ UNCHANGED <<shellVars, masterOpen, slaveOpen, sigterm, sigkill, produced,
                   buf, nSpawn, nThread, readerVars, callerVars, termVars>>

Child(max) == ChildEmit(max) \/ ChildExit

\* ------------------------------------------------- _read_loop (reader)
\* The reader leaves the loop: `cause` is why, `diag` whether the handler
\* of `except Exception` first passes a "Shell read error" text to on_output.
ReaderBreak(cause, diag) ==
    /\ rpc' = "exit"
    /\ rcause' = cause
    /\ IF diag
          THEN readerDiag' = readerDiag + 1 /\ OnShellOutput(Diag)
          ELSE UNCHANGED <<readerDiag, cbLog, taskQ>>

\* line 81: if self.master_fd is None: return
REntry ==
    /\ rpc = "entry"
    /\ rpc' = IF master_fd = None THEN "done" ELSE "test"
    /\ UNCHANGED <<shellVars, osVars, rsel, rdata, rcause, readLog, readerDiag,
                   callerVars, termVars>>

\* line 84: while self.running and self.master_fd is not None
RTest ==
    /\ rpc = "test"
    /\ rpc' = IF running /\ master_fd # None THEN "select" ELSE "exit"
    /\ UNCHANGED <<shellVars, osVars, rsel, rdata, rcause, readLog, readerDiag,
                   callerVars, termVars>>

\* Variant of RSelect: select without a timeout, which comes back only when
\* the descriptor is readable.
RSelectNoTimeout ==
    /\ rpc = "select"
    /\ master_fd = Fd /\ masterOpen /\ (buf # <<>> \/ Hangup)
    /\ rsel' = TRUE
    /\ rpc' = "in"
    /\ UNCHANGED <<shellVars, osVars, rdata, rcause, readLog, readerDiag,
                   callerVars, termVars>>

\* line 87: select.select([self.master_fd], [], [], 0.1).  None is no
\* descriptor (TypeError), a descriptor at or above FD_SETSIZE is refused
\* (ValueError): both reach `except Exception`.  A closed descriptor is
\* EBADF, an OSError.  Otherwise the call returns the descriptor when it is
\* readable and nothing at its timeout.
RSelect ==
    /\ rpc = "select"
    /\ IF master_fd = None \/ master_fd = FdBig
          THEN ReaderBreak("other", TRUE) /\ UNCHANGED rsel
          ELSE IF ~masterOpen
                  THEN ReaderBreak("oserror", FALSE) /\ UNCHANGED rsel
                  ELSE /\ rsel' = (buf # <<>> \/ Hangup)
                       /\ rpc' = "in"
                       /\ UNCHANGED <<rcause, readerDiag, cbLog, taskQ>>
    /\ UNCHANGED <<shellVars, osVars, rdata, readLog, callerVars, spc, shell,
                   kb, page, ustate, fedLog, nActive>>
    /\ UNCHANGED uiVars

\* line 89: if self.master_fd in r
RIn ==
    /\ rpc = "in"
    /\ rpc' = IF rsel /\ master_fd # None THEN "read" ELSE "test"
    /\ UNCHANGED <<shellVars, osVars, rsel, rdata, rcause, readLog, readerDiag,
                   callerVars, termVars>>

\* Variant of RRead: an OSError is reported through on_output like any other
\* exception.
RReadReportsOSError ==
    /\ rpc = "read"
    /\ IF master_fd = None \/ ~masterOpen \/ buf = <<>>
          THEN ReaderBreak("oserror", TRUE) /\ UNCHANGED <<buf, rdata, readLog>>
          ELSE /\ rdata' = buf /\ buf' = <<>>
               /\ readLog' = Append(readLog, buf)
               /\ rpc' = "deliver"
               /\ UNCHANGED <<rcause, readerDiag, cbLog, taskQ>>
    /\ UNCHANGED <<shellVars, masterOpen, slaveOpen, child, sigterm, sigkill,
                   produced, nSpawn, nThread, rsel, callerVars, spc, shell, kb,
                   page, ustate, fedLog, nActive>>
    /\ UNCHANGED uiVars

\* lines 91-93: data = os.read(self.master_fd, 10240); if not data: break.
\* The read returns a non-empty prefix of what is buffered; with nothing
\* buffered the secondary side is gone, which is EIO or an empty read.
RRead ==
    /\ rpc = "read"
    /\ IF master_fd = None
          THEN ReaderBreak("other", TRUE) /\ UNCHANGED <<buf, rdata, readLog>>
          ELSE IF ~masterOpen
                  THEN ReaderBreak("oserror", FALSE) /\ UNCHANGED <<buf, rdata, readLog>>
                  ELSE IF buf # <<>>
                          THEN \E k \in 1..Len(buf) :
                                  /\ rdata' = SubSeq(buf, 1, k)
                                  /\ buf' = SubSeq(buf, k + 1, Len(buf))
                                  /\ readLog' = Append(readLog, SubSeq(buf, 1, k))
                                  /\ rpc' = "deliver"
                                  /\ UNCHANGED <<rcause, readerDiag, cbLog, taskQ>>
                          ELSE /\ \E cause \in {"oserror", "eof"} : ReaderBreak(cause, FALSE)
                               /\ UNCHANGED <<buf, rdata, readLog>>
    /\ UNCHANGED <<shellVars, masterOpen, slaveOpen, child, sigterm, sigkill,
                   produced, nSpawn, nThread, rsel, callerVars, spc, shell, kb,
                   page, ustate, fedLog, nActive>>
    /\ UNCHANGED uiVars

\* lines 98-99: text = data.decode(...); self.on_output(text)
RDeliver ==
    /\ rpc = "deliver"
    /\ OnShellOutput(Utf8Decode(rdata))
    /\ rpc' = "test"
    /\ UNCHANGED <<shellVars, osVars, rsel, rdata, rcause, readLog, readerDiag,
                   callerVars, spc, shell, kb, page, ustate, fedLog, nActive>>
    /\ UNCHANGED uiVars

\* Variant of RExit: the thread ends without clearing running.
RExitKeepsRunning ==
    /\ rpc = "exit"
    /\ rpc' = "done"
    /\ UNCHANGED <<shellVars, osVars, rsel, rdata, rcause, readLog, readerDiag,
                   callerVars, termVars>>

\* line 108: self.running = False, and the thread ends.
RExit ==
    /\ rpc = "exit"
    /\ running' = FALSE
    /\ rpc' = "done"
    /\ UNCHANGED <<master_fd, process, thread, osVars, rsel, rdata, rcause,
                   readLog, readerDiag, callerVars, termVars>>

Reader == REntry \/ RTest \/ RSelect \/ RIn \/ RRead \/ RDeliver \/ RExit

ReaderAlive == rpc \notin {"unstarted", "done"}
ReaderInLoop == rpc \in {"test", "select", "in", "read", "deliver"}

\* ------------------------------------------------------ the host threads
\* A host thread enters a call on the session.  The threads are
\* interchangeable, so a call is taken by t1 whenever t1 is free.
\* afterClosed and afterEof record what had already happened when the call
\* began; closeCalled that close() has been entered.
Begin(c, kind, first) ==
    /\ pc[c] = "idle" /\ shell /\ ncalls < MaxCalls
    /\ c = "t1" \/ pc["t1"] # "idle"
    /\ closeCalled' = (closeCalled \/ first = "c_run")
    /\ pc' = [pc EXCEPT ![c] = first]
    /\ op' = [op EXCEPT ![c] = kind]
    /\ diagN' = [diagN EXCEPT ![c] = 0]
    /\ afterClosed' = [afterClosed EXCEPT ![c] = closedOnce]
    /\ afterEof' = [afterEof EXCEPT ![c] = (rcause = "eof")]
    /\ ncalls' = ncalls + 1
    /\ UNCHANGED <<shellVars, osVars, readerVars, closedOnce, spc, shell, kb,
                   page, cbLog, taskQ, fedLog, nActive>>

\* _on_key -> self.shell.write(data)
CallWrite(c) == Begin(c, "write", "w_check") /\ UNCHANGED <<ustate, uiVars>>

\* shell.close()
CallClose(c) == Begin(c, "close", "c_run") /\ UNCHANGED <<ustate, uiVars>>

\* will_unmount: if self.shell: self.shell.close().  The page calls the
\* hooks of a control one after the other: did_mount has returned.
CallUnmount(c) ==
    /\ ustate = "no" /\ spc = "done"
    /\ Begin(c, "unmount", "c_run")
    /\ ustate' = "started"
    /\ UNCHANGED uiVars

\* ------------------------------------------------ keyboard: _on_key, _map_key
\* A str is the sequence of its code points.  The names flet gives the keys
\* that _map_key knows:
K_Enter == <<69, 110, 116, 101, 114>>
K_Backspace == <<66, 97, 99, 107, 115, 112, 97, 99, 101>>
K_Tab == <<84, 97, 98>>
K_Escape == <<69, 115, 99, 97, 112, 101>>
K_ArrowUp == <<65, 114, 114, 111, 119, 32, 85, 112>>
K_ArrowDown == <<65, 114, 114, 111, 119, 32, 68, 111, 119, 110>>
K_ArrowRight == <<65, 114, 114, 111, 119, 32, 82, 105, 103, 104, 116>>
K_ArrowLeft == <<65, 114, 114, 111, 119, 32, 76, 101, 102, 116>>
K_Home == <<72, 111, 109, 101>>
K_End == <<69, 110, 100>>
K_PageUp == <<80, 97, 103, 101, 32, 85, 112>>
K_PageDown == <<80, 97, 103, 101, 32, 68, 111, 119, 110>>
K_Space == <<83, 112, 97, 99, 101>>
K_Delete == <<68, 101, 108, 101, 116, 101>>

\* str.isalpha, str.upper and str.lower of one character, over the Latin-1
\* letters and U+0130 (whose lower case is two code points).
IsAlphaChar(ch) ==
    \/ ch \in 65..90 \/ ch \in 97..122 \/ ch \in {170, 181, 186}
    \/ ch \in 192..214 \/ ch \in 216..246 \/ ch \in 248..255 \/ ch = 304

UpperChar(ch) ==
    IF ch \in 97..122 \/ ch \in 224..246 \/ ch \in 248..254 THEN <<ch - 32>>
    ELSE IF ch = 181 THEN <<924>>
    ELSE IF ch = 223 THEN <<83, 83>>
    ELSE IF ch = 255 THEN <<376>>
    ELSE <<ch>>

LowerChar(ch) ==
    IF ch \in 65..90 \/ ch \in 192..214 \/ ch \in 216..222 THEN <<ch + 32>>
    ELSE IF ch = 304 THEN <<105, 775>>
    ELSE <<ch>>

RECURSIVE Upper(_)
Upper(str) == IF str = <<>> THEN <<>> ELSE UpperChar(Head(str)) \o Upper(Tail(str))

RECURSIVE Lower(_)
Lower(str) == IF str = <<>> THEN <<>> ELSE LowerChar(Head(str)) \o Lower(Tail(str))

IsAlpha(str) == str # <<>> /\ \A i \in 1..Len(str) : IsAlphaChar(str[i])

\* bytes of one code point in UTF-8 (code points below U+10000).
Utf8Char(cp) ==
    IF cp < 128 THEN <<cp>>
    ELSE IF cp < 2048 THEN <<192 + (cp \div 64), 128 + (cp % 64)>>
    ELSE <<224 + (cp \div 4096), 128 + ((cp \div 64) % 64), 128 + (cp % 64)>>

\* command.encode("utf-8")
RECURSIVE Utf8Encode(_)
Utf8Encode(str) ==
    IF str = <<>> THEN <<>> ELSE Utf8Char(Head(str)) \o Utf8Encode(Tail(str))

\* The key events of a run: the named keys, letters with and without a
\* Ctrl shortcut, other characters and other key names, under every
\* combination of the modifiers.
OtherKeys ==
    {<<99>>,
     <<67>>,
     <<100>>,
     <<68>>,
     <<122>>,
     <<90>>,
     <<108>>,
     <<76>>,
     <<112>>,
     <<65>>,
     <<97>>,
     <<49>>,
     <<47>>,
     <<233>>,
     <<201>>,
     <<304>>,
     <<70, 49>>,
     <<101, 110, 116, 101, 114>>,
     <<67, 97, 112, 115, 32, 76, 111, 99, 107>>}
NamedKeys ==
    {K_Enter, K_Backspace, K_Tab, K_Escape, K_ArrowUp, K_ArrowDown, K_ArrowRight, K_ArrowLeft, K_Home, K_End, K_PageUp, K_PageDown, K_Space, K_Delete,
     <<32>>}
KeyEvents ==
    [key : NamedKeys \cup OtherKeys, ctrl : BOOLEAN, shift : BOOLEAN, alt : BOOLEAN]

NotNamed == <<-1>>           \* no branch of the chain was taken
NotMapped == <<-2>>          \* _on_key returned before calling _map_key

\* lines 143-170: the chain of comparisons with the named keys.
MapNamed(key) ==
    IF key = K_Enter THEN <<13>>    \* '\r'
    ELSE IF key = K_Backspace THEN <<127>>    \* '\x7f'
    ELSE IF key = K_Tab THEN <<9>>    \* '\t'
    ELSE IF key = K_Escape THEN <<27>>    \* '\x1b'
    ELSE IF key = K_ArrowUp THEN <<27, 91, 65>>    \* '\x1b[A'
    ELSE IF key = K_ArrowDown THEN <<27, 91, 66>>    \* '\x1b[B'
    ELSE IF key = K_ArrowRight THEN <<27, 91, 67>>    \* '\x1b[C'
    ELSE IF key = K_ArrowLeft THEN <<27, 91, 68>>    \* '\x1b[D'
    ELSE IF key = K_Home THEN <<27, 91, 72>>    \* '\x1b[H'
    ELSE IF key = K_End THEN <<27, 91, 70>>    \* '\x1b[F'
    ELSE IF key = K_PageUp THEN <<27, 91, 53, 126>>    \* '\x1b[5~'
    ELSE IF key = K_PageDown THEN <<27, 91, 54, 126>>    \* '\x1b[6~'
    ELSE IF key = K_Space \/ key = <<32>> THEN <<32>>
    ELSE IF key = K_Delete THEN <<27, 91, 51, 126>>    \* '\x1b[3~'
    ELSE NotNamed

\* lines 173-182: the Ctrl shortcuts.
MapCtrl(key) ==
    IF Upper(key) = <<67>> THEN <<3>>           \* "C" -> "\x03"
    ELSE IF Upper(key) = <<68>> THEN <<4>>      \* "D" -> "\x04"
    ELSE IF Upper(key) = <<90>> THEN <<26>>     \* "Z" -> "\x1a"
    ELSE IF Upper(key) = <<76>> THEN <<12>>     \* "L" -> "\x0c"
    ELSE <<>>

\* lines 185-190: a single character, lower-cased when it is a letter and
\* shift is not held; "" for a longer name.
MapChar(key, shift) ==
    IF Len(key) = 1
       THEN IF ~shift /\ IsAlpha(key) THEN Lower(key) ELSE key
       ELSE <<>>

\* Variant of MapKey: the Ctrl shortcuts are looked at before the named keys.
MapKeyCtrlFirst(e) ==
    IF e.ctrl THEN MapCtrl(e.key)
    ELSE IF MapNamed(e.key) # NotNamed THEN MapNamed(e.key)
    ELSE MapChar(e.key, e.shift)

\* Variant of MapKey: Ctrl with any letter gives that letter's control code.
MapKeyEveryCtrlLetter(e) ==
    IF MapNamed(e.key) # NotNamed THEN MapNamed(e.key)
    ELSE IF e.ctrl
       THEN IF Len(e.key) = 1 /\ Upper(e.key)[1] \in 65..90
               THEN <<Upper(e.key)[1] - 64>>
               ELSE <<>>
    ELSE MapChar(e.key, e.shift)

\* Variant of MapKey: a letter is lower-cased whatever the shift state.
MapKeyAlwaysLower(e) ==
    IF MapNamed(e.key) # NotNamed THEN MapNamed(e.key)
    ELSE IF e.ctrl THEN MapCtrl(e.key)
    ELSE MapChar(e.key, FALSE)

\* _map_key(e), lines 143-190: the named keys first, then the Ctrl
\* shortcuts, then single characters.
MapKey(e) ==
    IF MapNamed(e.key) # NotNamed THEN MapNamed(e.key)
    ELSE IF e.ctrl THEN MapCtrl(e.key)
    ELSE MapChar(e.key, e.shift)

\* _on_click -> set_focus(not self.focused)
Click ==
    /\ spc = "done"
    /\ focused' = ~focused
    /\ UNCHANGED <<shellVars, osVars, readerVars, callerVars, spc, shell, kb,
                   page, ustate, cbLog, taskQ, fedLog, nActive, kev, kdata,
                   kwrites, scrVars, script>>

\* Variant of OnKey: the focus is not looked at.
OnKeyIgnoresFocus(c, e) ==
    /\ kb /\ pc[c] = "idle"
    /\ c = "t1" \/ pc["t1"] # "idle"
    /\ kev' = e
    /\ LET called == shell
           data == IF called THEN MapKey(e) ELSE NotMapped
       IN
          /\ kdata' = data
          /\ IF called /\ data # <<>>
                THEN kwrites' = <<data>> /\ Begin(c, "write", "w_check")
                ELSE /\ kwrites' = <<>>
                     /\ UNCHANGED <<shellVars, osVars, readerVars, callerVars,
                                    spc, shell, kb, page, cbLog, taskQ, fedLog,
                                    nActive>>
    /\ UNCHANGED <<ustate, focused, scrVars, script>>

\* _on_key(e), lines 134-139, the handler did_mount gave the page: nothing
\* when the terminal has no focus or no shell; else the key is mapped and a
\* non-empty result is passed to self.shell.write, whose steps follow.
\* kev is the event, kdata what _map_key returned for it, kwrites the
\* arguments of the calls of shell.write the handler made.
OnKey(c, e) ==
    /\ kb /\ pc[c] = "idle"
    /\ c = "t1" \/ pc["t1"] # "idle"
    /\ kev' = e
    /\ LET called == focused /\ shell
           data == IF called THEN MapKey(e) ELSE NotMapped
       IN
          /\ kdata' = data
          /\ IF called /\ data # <<>>
                THEN kwrites' = <<data>> /\ Begin(c, "write", "w_check")
                ELSE /\ kwrites' = <<>>
                     /\ UNCHANGED <<shellVars, osVars, readerVars, callerVars,
                                    spc, shell, kb, page, cbLog, taskQ, fedLog,
                                    nActive>>
    /\ UNCHANGED <<ustate, focused, scrVars, script>>

\* The caller moves to `next` and nothing else changes.
Goto(c, next) ==
    /\ pc' = [pc EXCEPT ![c] = next]
    /\ UNCHANGED <<op, diagN, afterClosed, afterEof, ncalls, closedOnce,
                   closeCalled>>

\* Variant of WCheck: a write on a stopped session starts the shell again.
WCheckRestarts(c) ==
    /\ pc[c] = "w_check"
    /\ Goto(c, "w_write")
    /\ running' = TRUE
    /\ nSpawn' = IF running THEN nSpawn ELSE nSpawn + 1
    /\ UNCHANGED <<master_fd, process, thread, masterOpen, slaveOpen, child,
                   sigterm, sigkill, produced, buf, nThread, readerVars,
                   termVars>>

\* write, line 69: if not self.running or self.master_fd is None: return
WCheck(c) ==
    /\ pc[c] = "w_check"
    /\ Goto(c, IF ~running \/ master_fd = None THEN "ret" ELSE "w_write")
    /\ UNCHANGED <<shellVars, osVars, readerVars, termVars>>

\* write, line 73: os.write(self.master_fd, ...).  None is a TypeError, which
\* `except OSError` does not catch; a closed descriptor is EBADF; with the
\* secondary side gone the write fails with EIO or is accepted, by platform.
WWrite(c) ==
    /\ pc[c] = "w_write"
    /\ IF master_fd = None
          THEN Goto(c, "raised")
          ELSE IF ~masterOpen
                  THEN Goto(c, "w_diag")
                  ELSE IF Hangup
                          THEN \E n \in {"w_diag", "ret"} : Goto(c, n)
                          ELSE Goto(c, "ret")
    /\ UNCHANGED <<shellVars, osVars, readerVars, termVars>>

\* Variant of WDiag: the diagnostic is reported but close() is not called.
WDiagNoClose(c) ==
    /\ pc[c] = "w_diag"
    /\ OnShellOutput(Diag)
    /\ pc' = [pc EXCEPT ![c] = "ret"]
    /\ op' = [op EXCEPT ![c] = "wfail"]
    /\ diagN' = [diagN EXCEPT ![c] = diagN[c] + 1]
    /\ UNCHANGED <<shellVars, osVars, readerVars, afterClosed, afterEof, ncalls,
                   closedOnce, closeCalled, spc, shell, kb, page, ustate,
                   fedLog, nActive>>
    /\ UNCHANGED uiVars

\* write, line 76: self.on_output("Error writing to shell ..."); line 77
\* then calls self.close().
WDiag(c) ==
    /\ pc[c] = "w_diag"
    /\ OnShellOutput(Diag)
    /\ pc' = [pc EXCEPT ![c] = "c_run"]
    /\ op' = [op EXCEPT ![c] = "wfail"]
    /\ diagN' = [diagN EXCEPT ![c] = diagN[c] + 1]
    /\ closeCalled' = TRUE
    /\ UNCHANGED <<shellVars, osVars, readerVars, afterClosed, afterEof, ncalls,
                   closedOnce, spc, shell, kb, page, ustate, fedLog, nActive>>
    /\ UNCHANGED uiVars

\* close, line 112: self.running = False
CRun(c) ==
    /\ pc[c] = "c_run"
    /\ running' = FALSE
    /\ Goto(c, "c_ifproc")
    /\ UNCHANGED <<master_fd, process, thread, osVars, readerVars, termVars>>

\* close, line 114: if self.process
CIfProc(c) ==
    /\ pc[c] = "c_ifproc"
    /\ Goto(c, IF process # None THEN "c_term" ELSE "c_iffd")
    /\ UNCHANGED <<shellVars, osVars, readerVars, termVars>>

\* Popen.send_signal polls first: a child that has exited is reaped and no
\* signal is sent; a child that runs gets the signal.
SendSignal(term) ==
    /\ child' = IF child = "exited" THEN "reaped" ELSE child
    /\ sigterm' = (sigterm \/ (term /\ child = "alive"))
    /\ sigkill' = (sigkill \/ (~term /\ child = "alive"))

\* close, line 115: self.process.terminate().  The attribute is read again:
\* None has no terminate (AttributeError).
CTerm(c) ==
    /\ pc[c] = "c_term"
    /\ IF process = None
          THEN Goto(c, "raised") /\ UNCHANGED <<child, sigterm, sigkill>>
          ELSE Goto(c, "c_wait") /\ SendSignal(TRUE)
    /\ UNCHANGED <<shellVars, masterOpen, slaveOpen, produced, buf, nSpawn,
                   nThread, readerVars, termVars>>

\* Variant of CWait: wait() without a timeout, which comes back only when
\* the child has exited.
CWaitNoTimeout(c) ==
    /\ pc[c] = "c_wait"
    /\ process # None /\ child # "alive"
    /\ Goto(c, "c_clear") /\ child' = "reaped"
    /\ UNCHANGED <<shellVars, masterOpen, slaveOpen, sigterm, sigkill, produced,
                   buf, nSpawn, nThread, readerVars, termVars>>

\* close, lines 116-118: self.process.wait(timeout=0.2).  A child that has
\* exited is reaped and the call returns; one that still runs at the end of
\* the grace period gives TimeoutExpired.
CWait(c) ==
    /\ pc[c] = "c_wait"
    /\ IF process = None
          THEN Goto(c, "raised") /\ UNCHANGED child
          ELSE IF child = "alive"
                  THEN Goto(c, "c_kill") /\ UNCHANGED child
                  ELSE Goto(c, "c_clear") /\ child' = "reaped"
    /\ UNCHANGED <<shellVars, masterOpen, slaveOpen, sigterm, sigkill, produced,
                   buf, nSpawn, nThread, readerVars, termVars>>

\* close, line 119: self.process.kill()
CKill(c) ==
    /\ pc[c] = "c_kill"
    /\ IF process = None
          THEN Goto(c, "raised") /\ UNCHANGED <<child, sigterm, sigkill>>
          ELSE Goto(c, "c_clear") /\ SendSignal(FALSE)
    /\ UNCHANGED <<shellVars, masterOpen, slaveOpen, produced, buf, nSpawn,
                   nThread, readerVars, termVars>>

\* Variant of CClear: the Popen object is kept.
CClearKeepsProcess(c) ==
    /\ pc[c] = "c_clear"
    /\ Goto(c, "c_iffd")
    /\ UNCHANGED <<shellVars, osVars, readerVars, termVars>>

\* close, line 120: self.process = None
CClear(c) ==
    /\ pc[c] = "c_clear"
    /\ process' = None
    /\ Goto(c, "c_iffd")
    /\ UNCHANGED <<running, master_fd, thread, osVars, readerVars, termVars>>

\* close, line 122: if self.master_fd is not None
CIfFd(c) ==
    /\ pc[c] = "c_iffd"
    /\ Goto(c, IF master_fd # None THEN "c_osclose" ELSE "c_join")
    /\ UNCHANGED <<shellVars, osVars, readerVars, termVars>>

\* close, lines 123-126: os.close(self.master_fd); OSError is swallowed,
\* the TypeError for None is not.
COsClose(c) ==
    /\ pc[c] = "c_osclose"
    /\ IF master_fd = None
          THEN Goto(c, "raised") /\ UNCHANGED masterOpen
          ELSE Goto(c, "c_fdnone") /\ masterOpen' = FALSE
    /\ UNCHANGED <<shellVars, slaveOpen, child, sigterm, sigkill, produced, buf,
                   nSpawn, nThread, readerVars, termVars>>

\* close, line 127: self.master_fd = None
CFdNone(c) ==
    /\ pc[c] = "c_fdnone"
    /\ master_fd' = None
    /\ Goto(c, "c_join")
    /\ UNCHANGED <<running, process, thread, osVars, readerVars, termVars>>

\* close, lines 129-131: self._thread.join(timeout=0.5) when the thread is
\* alive.  The call comes back when the reader has ended or at its timeout,
\* so it never waits for a state of the reader; close() then returns.
CJoin(c) ==
    /\ pc[c] = "c_join"
    /\ pc' = [pc EXCEPT ![c] = IF op[c] = "unmount" THEN "u_kb" ELSE "ret"]
    /\ closedOnce' = TRUE
    /\ UNCHANGED <<op, diagN, afterClosed, afterEof, ncalls, closeCalled>>
    /\ UNCHANGED <<shellVars, osVars, readerVars, termVars>>

\* will_unmount, lines 74-75: if self.page: self.page.on_keyboard_event = None
\* Variant of UKb: the page keeps its keyboard handler.
UKbKeepsHandler(c) ==
    /\ pc[c] = "u_kb"
    /\ kb' = kb
    /\ Goto(c, "ret")
    /\ UNCHANGED <<shellVars, osVars, readerVars, spc, shell, page, ustate,
                   cbLog, taskQ, fedLog, nActive>>
    /\ UNCHANGED uiVars

UKb(c) ==
    /\ pc[c] = "u_kb"
    /\ kb' = IF page THEN FALSE ELSE kb
    /\ Goto(c, "ret")
    /\ UNCHANGED <<shellVars, osVars, readerVars, spc, shell, page, ustate,
                   cbLog, taskQ, fedLog, nActive>>
    /\ UNCHANGED uiVars

\* The call is over: it returned, or its exception reached the caller.
Return(c) ==
    /\ pc[c] \in {"ret", "raised"}
    /\ pc' = [pc EXCEPT ![c] = "idle"]
    /\ op' = [op EXCEPT ![c] = "none"]
    /\ diagN' = [diagN EXCEPT ![c] = 0]
    /\ afterClosed' = [afterClosed EXCEPT ![c] = FALSE]
    /\ afterEof' = [afterEof EXCEPT ![c] = FALSE]
    /\ ustate' = IF op[c] = "unmount" THEN "done" ELSE ustate
    /\ UNCHANGED <<shellVars, osVars, readerVars, ncalls, closedOnce,
                   closeCalled, spc, shell, kb, page, cbLog, taskQ, fedLog,
                   nActive>>
    /\ UNCHANGED uiVars

\* Every step of write() and close().
ShellStep(c) ==
    \/ WCheck(c) \/ WWrite(c) \/ WDiag(c)
    \/ CRun(c) \/ CIfProc(c) \/ CTerm(c) \/ CWait(c) \/ CKill(c) \/ CClear(c)
    \/ CIfFd(c) \/ COsClose(c) \/ CFdNone(c) \/ CJoin(c)
    \/ Return(c)

\* --------------------------------------------- the page and its event loop
\* After will_unmount the framework takes the control off the page.
PageDetach ==
    /\ ustate = "done" /\ page
    /\ page' = FALSE
    /\ UNCHANGED <<shellVars, osVars, readerVars, callerVars, spc, shell, kb,
                   ustate, cbLog, taskQ, fedLog, nActive>>
    /\ UNCHANGED uiVars

\* Variant of HasChanged: only the number of spans is compared.
HasChangedCountOnly(spans, old) ==
    old = NoSpans \/ Len(spans) # Len(old)

\* has_changed, lines 240-249: the line control has no spans yet, or the
\* new list has another length, or some pair of spans differs in text or
\* in colour.
HasChanged(spans, old) ==
    \/ old = NoSpans
    \/ Len(spans) # Len(old)
    \/ \E k \in 1..Len(spans) :
           spans[k].text # old[k].text \/ spans[k].color # old[k].color

\* _update_display, lines 204-261.  A rendered line is added for every
\* entry of history.top past the number of rendered history lines; then row
\* i of the screen is rendered into buffer_lines[i] for i below self.rows
\* (spans equal to the old ones are left in place), which is an IndexError
\* when there are fewer line controls than rows.
UpdateDisplay ==
    LET top == screen.top
        have == Len(history_lines)
        n == Min(rows, Len(buffer_lines))
    IN  /\ history_lines' =
              IF Len(top) > have
                 THEN history_lines \o
                      [i \in 1..(Len(top) - have) |->
                          RenderLineData(top[have + i], cols)]
                 ELSE history_lines
        /\ buffer_lines' =
              [i \in 1..Len(buffer_lines) |->
                  IF i <= n /\ HasChanged(RenderLineData(RowAt(screen, i - 1), cols),
                                          buffer_lines[i])
                     THEN RenderLineData(RowAt(screen, i - 1), cols)
                     ELSE buffer_lines[i]]
        /\ redrawn' =
              {i \in 1..n : HasChanged(RenderLineData(RowAt(screen, i - 1), cols),
                                       buffer_lines[i])}
        /\ uerr' = (uerr \/ rows > Len(buffer_lines))

\* The event loop takes the oldest update_ui task when it runs no other:
\* update_ui has no await, so the loop runs it to its end.  First
\* self.stream.feed(text) ...
TaskFeed ==
    /\ taskQ # <<>> /\ nActive = 0
    /\ fedLog' = Append(fedLog, Head(taskQ))
    /\ screen' = StreamFeed(screen, Head(taskQ))
    /\ taskQ' = Tail(taskQ)
    /\ nActive' = nActive + 1
    /\ UNCHANGED <<shellVars, osVars, readerVars, callerVars, spc, shell, kb,
                   page, ustate, cbLog>>
    /\ UNCHANGED <<keyVars, cols, rows, buffer_lines, history_lines, winsize,
                   hres, uerr, hargs, redrawn, script>>

\* ... then self._update_display(), which ends the task.
TaskRender ==
    /\ nActive > 0
    /\ nActive' = nActive - 1
    /\ UpdateDisplay
    /\ UNCHANGED <<shellVars, osVars, readerVars, callerVars, spc, shell, kb,
                   page, ustate, cbLog, taskQ, fedLog>>
    /\ UNCHANGED <<keyVars, cols, rows, screen, winsize, hres, hargs, script>>

EventLoop == TaskFeed \/ TaskRender

\* ------------------------------------------------------------ handle_resize
CHAR_WIDTH == 8
CHAR_HEIGHT == 18
Padding == 5                       \* self.padding
\* int(x / d) of a whole number x: the quotient cut towards zero
TruncDiv(x, d) == IF x >= 0 THEN x \div d ELSE -((-x) \div d)

\* Variant of HandleResize: no minimum size.
HandleResizeNoMinimum(width, height) ==
    /\ spc = "done" /\ nActive = 0
    /\ hargs' = <<width, height>>
    /\ IF ~shell
          THEN hres' = "noshell" /\ UNCHANGED <<cols, rows, screen>>
          ELSE LET c == TruncDiv(width, CHAR_WIDTH)
                   r == IF height # <<>>
                           THEN TruncDiv(height[1] - 2 * Padding, CHAR_HEIGHT)
                           ELSE rows
               IN  IF c # cols \/ r # rows
                      THEN /\ cols' = c
                           /\ rows' = r
                           /\ screen' = ScreenResize(screen, r, c)
                           /\ hres' = "raised"
                      ELSE hres' = "unchanged" /\ UNCHANGED <<cols, rows, screen>>
    /\ UNCHANGED <<buffer_lines, history_lines, winsize, uerr, redrawn>>
    /\ UNCHANGED <<shellVars, osVars, readerVars, callerVars, spc, shell, kb,
                   page, ustate, cbLog, taskQ, fedLog, nActive, keyVars, script>>

\* handle_resize(width, height), lines 89-130; height is <<>> for None.
\* Nothing without a shell.  When the computed size differs, cols and rows
\* are set (at least 10 and 5) and the screen is resized; line 114 then
\* calls self.shell.resize, a method ShellManager does not have: the
\* AttributeError ends the handler before the line controls are rebuilt
\* (lines 117-126) and before _update_display (line 130).  The handler runs
\* between update_ui tasks.
HandleResize(width, height) ==
    /\ spc = "done" /\ nActive = 0
    /\ hargs' = <<width, height>>
    /\ IF ~shell
          THEN hres' = "noshell" /\ UNCHANGED <<cols, rows, screen>>
          ELSE LET c == TruncDiv(width, CHAR_WIDTH)
                   r == IF height # <<>>
                           THEN TruncDiv(height[1] - 2 * Padding, CHAR_HEIGHT)
                           ELSE rows
               IN  IF c # cols \/ r # rows
                      THEN /\ cols' = Max(10, c)
                           /\ rows' = Max(5, r)
                           /\ screen' = ScreenResize(screen, Max(5, r), Max(10, c))
                           /\ hres' = "raised"
                      ELSE hres' = "unchanged" /\ UNCHANGED <<cols, rows, screen>>
    /\ UNCHANGED <<buffer_lines, history_lines, winsize, uerr, redrawn>>
    /\ UNCHANGED <<shellVars, osVars, readerVars, callerVars, spc, shell, kb,
                   page, ustate, cbLog, taskQ, fedLog, nActive, keyVars, script>>

\* --------------------------------------------------------- specifications
NoOtherCall(c) == \A d \in Callers \ {c} : pc[d] = "idle"

\* The session under host threads whose write() and close() calls may
\* overlap, beside the reader thread and the child.
Next ==
    \/ DidMount \/ Child(MaxEmit) \/ Reader
    \/ \E c \in Callers : CallWrite(c) \/ CallClose(c) \/ ShellStep(c)

Spec == Init /\ [][Next]_vars

\* The same, the host making one call at a time.
SerialNext ==
    \/ DidMount \/ Child(MaxEmit) \/ Reader
    \/ \E c \in Callers :
          \/ NoOtherCall(c) /\ (CallWrite(c) \/ CallClose(c))
          \/ ShellStep(c)

SerialSpec == Init /\ [][SerialNext]_vars

\* The terminal component: the session, the page's event loop that runs the
\* update_ui tasks, key presses that write, and will_unmount.
TermNext ==
    \/ DidMount \/ Child(MaxChunks) \/ Reader \/ EventLoop \/ PageDetach
    \/ \E c \in Callers :
          \/ NoOtherCall(c) /\ (CallWrite(c) \/ CallUnmount(c))
          \/ ShellStep(c) \/ UKb(c)

TermSpec == Init /\ [][TermNext]_vars

\* The keyboard: the mounted component receives clicks and key events one
\* at a time; the shell runs and the session stays open.
KeyNext ==
    \/ DidMount \/ Click
    \/ \E c \in Callers :
          \/ NoOtherCall(c) /\ (\E e \in KeyEvents : OnKey(c, e))
          \/ WCheck(c) \/ WWrite(c) \/ Return(c)

KeySpec == Init /\ [][KeyNext]_vars

\* Outputs of the shell, as bytes: four lines; "e-acute a"; the euro sign;
\* red "a"; five letters.
OutLines == <<97, 10, 98, 10, 99, 10, 100, 10>>
OutAccent == <<195, 169, 97>>
OutEuro == <<226, 130, 172>>
OutRed == <<27, 91, 51, 49, 109, 97>>
OutWrap == <<97, 98, 99, 100, 101>>
ScreenOutputs == {OutLines, OutAccent, OutEuro, OutRed, OutWrap}
ScreenGeometries == {<<4, 2>>}

\* The output path: the child writes its output byte by byte, the reader
\* reads and decodes what has arrived, the event loop feeds the screen and
\* updates the display.
ScreenInit ==
    /\ SessionInit
    /\ \E g \in ScreenGeometries : ComponentInit(g[1], g[2])
    /\ script \in ScreenOutputs

ScreenNext == DidMount \/ Child(Len(script)) \/ Reader \/ EventLoop

ScreenSpec == ScreenInit /\ [][ScreenNext]_vars

\* "\x1b[31mHello\x1b[0m World", and three lines
OutHello == <<27, 91, 51, 49, 109, 72, 101, 108, 108, 111, 27, 91, 48, 109, 32, 87, 111, 114, 108, 100>>
OutThree == <<97, 13, 10, 98, 13, 10, 99>>
\* "\x1b[31mab\x1b[32mc\x1b[31md\x1b[30me\x1b[0mf": red, green, red, black
\* and default text
OutColors ==
    <<27, 91, 51, 49, 109, 97, 98, 27, 91, 51, 50, 109, 99, 27, 91, 51, 49, 109,
      100, 27, 91, 51, 48, 109, 101, 27, 91, 48, 109, 102>>
ViewOutputs ==
    {SubSeq(OutHello, 1, n) : n \in 1..Len(OutHello)}
    \cup {SubSeq(OutThree, 1, n) : n \in 1..Len(OutThree)}
    \cup {SubSeq(OutColors, 1, n) : n \in 1..Len(OutColors)}
ViewGeometries == {<<80, 24>>, <<12, 6>>}
Widths == {40, 80, 96, 640}
Heights == {<<>>, <<0>>, <<100>>, <<118>>, <<442>>}

\* A mounted component whose reader has just read the shell's whole output
\* `out` in one chunk.
Holding(out) ==
    /\ running = TRUE /\ master_fd = Fd /\ process = Proc /\ thread = Thr
    /\ masterOpen = TRUE /\ slaveOpen = FALSE /\ child = "alive"
    /\ sigterm = FALSE /\ sigkill = FALSE /\ produced = Len(out) /\ buf = <<>>
    /\ nSpawn = 1 /\ nThread = 1
    /\ rpc = "deliver" /\ rsel = TRUE /\ rdata = out /\ rcause = "none"
    /\ readLog = <<out>> /\ readerDiag = 0
    /\ pc = [c \in Callers |-> "idle"] /\ op = [c \in Callers |-> "none"]
    /\ diagN = [c \in Callers |-> 0]
    /\ afterClosed = [c \in Callers |-> FALSE]
    /\ afterEof = [c \in Callers |-> FALSE]
    /\ ncalls = 0 /\ closedOnce = FALSE /\ closeCalled = FALSE
    /\ spc = "done" /\ shell = TRUE /\ kb = TRUE /\ page = TRUE
    /\ ustate = "no" /\ cbLog = <<>> /\ taskQ = <<>> /\ fedLog = <<>>
    /\ nActive = 0
    /\ script = out

\* The view: one chunk of output is delivered, fed and rendered, and the
\* component is resized.
ViewInit ==
    \E out \in ViewOutputs, g \in ViewGeometries :
        Holding(out) /\ ComponentInit(g[1], g[2])

ViewNext ==
    \/ RDeliver \/ EventLoop
    \/ \E w \in Widths, h \in Heights : HandleResize(w, h)

ViewSpec == ViewInit /\ [][ViewNext]_vars

\* SerialSpec with every thread of the process scheduled again and again:
\* the reader thread and the host threads take their next step.
FairReaderSpec ==
    SerialSpec /\ WF_vars(Reader) /\ \A c \in Callers : WF_vars(ShellStep(c))

\* SerialSpec with only the host threads scheduled: nothing is assumed of
\* the reader thread or of the child.
FairCallerSpec == SerialSpec /\ \A c \in Callers : WF_vars(ShellStep(c))

\* ------------------------------------------------------------ properties
WasStarted == spc \in {"thread_start", "close_slave", "assign", "install_kb", "done"}
InClose(c) ==
    pc[c] \in {"c_run", "c_ifproc", "c_term", "c_wait", "c_kill", "c_clear",
               "c_iffd", "c_osclose", "c_fdnone", "c_join"}
IsPrefix(a, b) == Len(a) <= Len(b) /\ SubSeq(b, 1, Len(a)) = a
IsData(t) == t # Diag
DataOf(log) == SelectSeq(log, IsData)

\* C1: when close() runs in two threads at once, neither call raises, and
\* once both have returned the reader thread has ended, master_fd is None
\* and process is None.
C1_ConcurrentCloseSafe ==
    /\ \A c \in Callers : op[c] = "close" => pc[c] # "raised"
    /\ (\A c \in Callers : op[c] = "close" /\ pc[c] = "ret")
          => (~ReaderAlive /\ master_fd = None /\ process = None)

\* C2: a close() that begins after a close() has completed raises nothing,
\* finds running false and master_fd and process None and leaves them so,
\* never reaches terminate, wait, kill or os.close, and never calls
\* on_output.
C2_SecondCloseChangesNothing ==
    \A c \in Callers :
        (op[c] = "close" /\ afterClosed[c]) =>
            /\ pc[c] \in {"c_run", "c_ifproc", "c_iffd", "c_join", "ret"}
            /\ ~running /\ master_fd = None /\ process = None
            /\ diagN[c] = 0

C2_Witness == \E c \in Callers : op[c] = "close" /\ afterClosed[c] /\ pc[c] = "ret"

\* C3 as stated: in every state the reader thread is in its loop exactly
\* when running is true and the master descriptor is open.
C3_ReaderInLoopIffRunningAndOpen == ReaderInLoop <=> (running /\ masterOpen)

\* C3 as amended: while running is true the master descriptor is open and,
\* once the thread has been started, the reader thread has not ended; and a
\* reader in its loop finds running true and the descriptor open as long as
\* close() has not been entered.
C3_RunningImpliesReaderAlive ==
    /\ running => (masterOpen /\ master_fd # None)
    /\ (running /\ thread # None) => ReaderAlive
    /\ (ReaderInLoop /\ ~closeCalled) => (running /\ masterOpen)

C3_Witness == rpc = "select" /\ running /\ masterOpen /\ spc = "done"

\* C4: once close() has been entered, the reader thread ends.
C4_ReaderLeavesLoop == closeCalled ~> (rpc = "done")

C4_Witness == closeCalled /\ rpc = "done" /\ rcause = "none"

\* C5: once running has been set and is false again, no step makes it true
\* again, creates a child process or starts a reader thread.
C5_ClosedIsFinal ==
    [][(WasStarted /\ ~running) =>
          (~running' /\ nSpawn' = nSpawn /\ nThread' = nThread)]_vars

C5_Witness ==
    /\ WasStarted /\ ~running /\ nSpawn = 1 /\ nThread = 1
    /\ \E c \in Callers : op[c] = "write" /\ pc[c] = "ret"

\* C6: after a read of zero bytes the reader is out of its loop, and every
\* write() that begins afterwards has passed a diagnostic to on_output by
\* the time it returns.
C6_WriteAfterEofReports ==
    /\ rcause = "eof" => ~ReaderInLoop
    /\ \A c \in Callers :
          (op[c] \in {"write", "wfail"} /\ afterEof[c] /\ pc[c] = "ret")
              => diagN[c] >= 1

\* C7: a write() whose os.write has failed with an OSError does not raise,
\* has called on_output once (and a write() that has not failed never), and
\* returns with running false, master_fd None and process None.
C7_WriteFailureClosesSession ==
    \A c \in Callers :
        /\ op[c] = "wfail" => pc[c] # "raised"
        /\ op[c] = "write" => diagN[c] = 0
        /\ op[c] = "wfail" => diagN[c] = 1
        /\ (op[c] = "wfail" /\ pc[c] = "ret")
              => (~running /\ master_fd = None /\ process = None)

C7_Witness == \E c \in Callers : op[c] = "wfail" /\ pc[c] = "ret"

\* C8 as stated: when select or os.read fails, whatever the exception, the
\* reader passes no message to on_output, and it ends with running false.
C8_ReaderFailureQuiet ==
    rcause \in {"oserror", "other"} =>
        (readerDiag = 0 /\ (rpc = "done" => ~running))

\* C8 as amended: when select or os.read fails with an OSError the reader
\* passes no message to on_output, and it ends with running false.
C8_ReaderOSErrorQuiet ==
    rcause = "oserror" => (readerDiag = 0 /\ (rpc = "done" => ~running))

C8_Witness == rcause = "oserror" /\ rpc = "done"

\* C9: the chunks passed to on_output are the chunks read, in the order
\* read; what the decoder has been fed and what waits to be fed is, in
\* order, what on_output was given; and at most one update_ui task runs.
C9_OutputInOrder ==
    /\ IsPrefix(DataOf(cbLog), readLog)
    /\ IsPrefix(fedLog \o taskQ, cbLog)
    /\ nActive <= 1

C9_Witness == Len(DataOf(fedLog)) >= 2 /\ nActive = 1

\* C10: every close() comes to its end whatever the child and the reader
\* do; when it leaves the block that handles the child, the child has been
\* reaped or sent SIGKILL; and when it reaches the join the descriptor is
\* closed.
C10_CloseNeverHangs ==
    /\ [](\A c \in Callers :
            /\ pc[c] \in {"c_clear", "c_iffd", "c_osclose", "c_fdnone", "c_join"}
                  => (sigkill \/ child = "reaped")
            /\ pc[c] = "c_join" => (~masterOpen /\ master_fd = None))
    /\ \A c \in Callers : InClose(c) ~> (pc[c] = "ret")

C10_Witness == \E c \in Callers : op[c] = "close" /\ pc[c] = "ret" /\ sigkill

\* C11: when a close() has returned, the master descriptor is closed and the
\* child has been reaped, whether it exited within the grace period or was
\* sent SIGKILL.
C11_CloseReapsChild ==
    \A c \in Callers :
        (op[c] = "close" /\ pc[c] = "ret") => (~masterOpen /\ child = "reaped")

\* C12: when Popen has failed, the error leaves _start_process and did_mount
\* (no ShellManager is assigned, nothing is tried again): running is false,
\* no child and no reader thread exist, and the parent's secondary
\* descriptor is closed; it is closed after a successful start as well.
C12_SpawnFailurePropagates ==
    /\ [](spc = "failed" =>
            /\ ~running /\ process = None /\ thread = None
            /\ nSpawn = 0 /\ nThread = 0 /\ rpc = "unstarted"
            /\ ~slaveOpen /\ ~shell)
    /\ [](spc \in {"assign", "install_kb", "done"} => ~slaveOpen)
    /\ [][spc = "failed" => UNCHANGED vars]_vars

C12_Witness == spc = "failed" /\ ~slaveOpen /\ masterOpen
\* C13: whenever handle_resize changes cols or rows, the screen has the new
\* size, the pty's window size is that same (rows, cols), and the line
\* controls show the resized screen.
C13_ResizeReachesPty ==
    [][(rows' # rows \/ cols' # cols) =>
          /\ screen'.lines = rows' /\ screen'.columns = cols'
          /\ winsize' = <<rows', cols'>>
          /\ buffer_lines' = [i \in 1..rows' |->
                                 RenderLineData(RowAt(screen', i - 1), cols')]]_vars

\* Nothing of the shell's output is on its way: all of it has been read,
\* delivered and fed.
Drained == buf = <<>> /\ rpc # "deliver" /\ taskQ = <<>>

\* C14: once everything the shell has written has been fed, the screen is
\* the one that feeding the whole output as a single chunk gives, however
\* the reader's reads have cut it.
C14_ChunkingInvariant ==
    Drained =>
        screen = StreamFeed(FreshScreen(cols, rows),
                            Utf8Decode(SubSeq(script, 1, produced)))

\* The rows that "a\nb\nc\nd\n" scrolls off a screen of two rows.
C15_Rows ==
    <<(0 :> [data |-> 97, fg |-> "default"]),
      (1 :> [data |-> 98, fg |-> "default"]),
      (2 :> [data |-> 99, fg |-> "default"])>>

\* C15: the history never holds more than its capacity; it is the most
\* recent rows that scrolled off the top, in the order they scrolled off
\* (the oldest are dropped first); after four lines on two rows it holds
\* the last of the first three.
C15_HistoryOrderAndCap ==
    LET n == Len(screen.scrolled)
        k == Min(n, HistoryCap)
    IN  /\ Len(screen.top) <= HistoryCap
        /\ screen.top = SubSeq(screen.scrolled, n - k + 1, n)
        /\ (script = OutLines /\ produced = Len(OutLines) /\ Drained
             /\ rows = 2 /\ master_fd = Fd) =>
                screen.top = SubSeq(C15_Rows, 3 - Min(3, HistoryCap) + 1, 3)

C15_Witness ==
    /\ script = OutLines /\ produced = Len(OutLines) /\ Drained /\ rows = 2
    /\ Len(screen.scrolled) = 3 /\ Len(screen.top) = 2
    /\ screen.top[1] = C15_Rows[2] /\ Len(readLog) >= 2

\* C16: "ESC[31mHello ESC[0m World" fed to a fresh terminal and rendered:
\* row 0 is two spans, "Hello" in red and then " World" and spaces up to
\* the last column in white.
C16_HelloWorldSpans ==
    (script = OutHello /\ hres = "none" /\ fedLog # <<>> /\ nActive = 0) =>
        LET l == buffer_lines[1] IN
           /\ Len(l) = 2
           /\ l[1] = [text |-> <<72, 101, 108, 108, 111>>, color |-> "red"]
           /\ l[2].color = "white"
           /\ Len(l[2].text) = cols - 5
           /\ SubSeq(l[2].text, 1, 6) = <<32, 87, 111, 114, 108, 100>>
           /\ \A i \in 7..Len(l[2].text) : l[2].text[i] = 32

C16_Witness ==
    /\ script = OutHello /\ hres = "none" /\ fedLog # <<>> /\ nActive = 0
    /\ cols = 80 /\ rows = 24 /\ Len(buffer_lines[1]) = 2

\* C17: when a resize leaves fewer rows (and no fewer columns), every row
\* that had content is still on the screen or is in the history.
C17_ResizeKeepsContent ==
    [][(screen'.lines < screen.lines /\ screen'.columns >= screen.columns) =>
          \A y \in 0..(screen.lines - 1) :
              RowAt(screen, y) # <<>> =>
                  \/ \E y2 \in 0..(screen'.lines - 1) :
                         RowAt(screen', y2) = RowAt(screen, y)
                  \/ \E i \in 1..Len(screen'.top) :
                         screen'.top[i] = RowAt(screen, y)]_vars

\* The sequence C18 gives for each named key.
C18_Fixed ==
    (K_Enter :> <<13>>) @@ (K_Backspace :> <<127>>) @@ (K_Tab :> <<9>>)
    @@ (K_Escape :> <<27>>)
    @@ (K_ArrowUp :> <<27, 91, 65>>) @@ (K_ArrowDown :> <<27, 91, 66>>)
    @@ (K_ArrowRight :> <<27, 91, 67>>) @@ (K_ArrowLeft :> <<27, 91, 68>>)
    @@ (K_Home :> <<27, 91, 72>>) @@ (K_End :> <<27, 91, 70>>)
    @@ (K_PageUp :> <<27, 91, 53, 126>>) @@ (K_PageDown :> <<27, 91, 54, 126>>)
    @@ (K_Delete :> <<27, 91, 51, 126>>)
    @@ (K_Space :> <<32>>) @@ (<<32>> :> <<32>>)

\* C18: for a key event whose key is a named key, _map_key returns that
\* key's fixed sequence whatever the modifiers, and that sequence is what
\* is written; Arrow Up is the three bytes 0x1B 0x5B 0x41.
C18_NamedKeysFixed ==
    (kev.key \in DOMAIN C18_Fixed /\ kdata # NotMapped) =>
        /\ kdata = C18_Fixed[kev.key]
        /\ kwrites = <<kdata>>
        /\ kev.key = K_ArrowUp => Utf8Encode(kdata) = <<27, 91, 65>>

C18_Witness ==
    /\ kev.key = K_ArrowUp /\ kev.ctrl /\ kev.shift /\ kev.alt
    /\ kdata = <<27, 91, 65>> /\ kwrites = <<kdata>>

\* C19: for a key event with ctrl whose key is not a named key, _map_key
\* returns 0x03, 0x04, 0x1A, 0x0C for c, d, z, l in either case and nothing
\* for every other key, and then nothing is written to the shell.
C19_CtrlShortcuts ==
    (kev.ctrl /\ kev.key \notin DOMAIN C18_Fixed /\ kdata # NotMapped) =>
        /\ kdata = IF kev.key \in {<<99>>, <<67>>} THEN <<3>>
                   ELSE IF kev.key \in {<<100>>, <<68>>} THEN <<4>>
                   ELSE IF kev.key \in {<<122>>, <<90>>} THEN <<26>>
                   ELSE IF kev.key \in {<<108>>, <<76>>} THEN <<12>>
                   ELSE <<>>
        /\ kwrites = IF kdata = <<>> THEN <<>> ELSE <<kdata>>

C19_Witness ==
    /\ kev.ctrl /\ kev.key = <<112>> /\ kdata = <<>> /\ kwrites = <<>>
    /\ focused /\ shell

\* The lower case of the letters among the keys of a run.
C20_LowerCase ==
    (<<99>> :> <<99>>) @@ (<<67>> :> <<99>>) @@ (<<100>> :> <<100>>)
    @@ (<<68>> :> <<100>>) @@ (<<122>> :> <<122>>) @@ (<<90>> :> <<122>>)
    @@ (<<108>> :> <<108>>) @@ (<<76>> :> <<108>>) @@ (<<112>> :> <<112>>)
    @@ (<<65>> :> <<97>>) @@ (<<97>> :> <<97>>) @@ (<<233>> :> <<233>>)
    @@ (<<201>> :> <<233>>) @@ (<<304>> :> <<105, 775>>)

\* C20: for a key event without ctrl whose key is not a named key, a
\* single character is returned lower-cased when it is a letter and shift
\* is not set and as it is otherwise, and it is written; a longer key name
\* gives nothing and no write.
C20_PlainCharacters ==
    (~kev.ctrl /\ kev.key \notin DOMAIN C18_Fixed /\ kdata # NotMapped) =>
        /\ Len(kev.key) = 1 =>
              /\ kdata = IF kev.key \in DOMAIN C20_LowerCase /\ ~kev.shift
                            THEN C20_LowerCase[kev.key]
                            ELSE kev.key
              /\ kwrites = <<kdata>>
        /\ Len(kev.key) > 1 => (kdata = <<>> /\ kwrites = <<>>)

C20_Witness ==
    /\ ~kev.ctrl /\ kev.shift /\ kev.key = <<65>> /\ kdata = <<65>>
    /\ kwrites = <<kdata>>

\* C21: a call of shell.write begins only in a step of a key event that
\* finds the terminal focused with a shell, and it is one call with what
\* _map_key returned, which is not empty; a key event that finds the
\* terminal unfocused (or without shell) begins no call and writes nothing.
C21_WriteOnlyWhenFocused ==
    [][/\ (ncalls' # ncalls) =>
            /\ focused /\ shell
            /\ MapKey(kev') # <<>> /\ kwrites' = <<MapKey(kev')>>
            /\ ncalls' = ncalls + 1
            /\ \E c \in Callers :
                   /\ pc[c] = "idle" /\ pc'[c] = "w_check" /\ op'[c] = "write"
                   /\ \A d \in Callers \ {c} : pc'[d] = pc[d]
       /\ (kev' # kev \/ kdata' # kdata \/ kwrites' # kwrites) =>
            IF focused /\ shell
               THEN /\ kdata' = MapKey(kev')
                    /\ kdata' # <<>> =>
                           ncalls' = ncalls + 1 /\ kwrites' = <<kdata'>>
                    /\ kdata' = <<>> =>
                           ncalls' = ncalls /\ kwrites' = <<>> /\ pc' = pc
               ELSE /\ kdata' = NotMapped /\ kwrites' = <<>>
                    /\ ncalls' = ncalls /\ pc' = pc]_vars

\* a key was written while the terminal had the focus, and a later key
\* event, after a click took the focus away, was ignored
C21_Witness ==
    /\ ncalls = 1 /\ ~focused /\ shell /\ kb
    /\ kev.key = <<97>> /\ kdata = NotMapped /\ kwrites = <<>>

\* C22: once every update_ui task has run to its end, the rendered history
\* has one line for every row that ever scrolled off the screen, in the
\* order the rows scrolled off, however many there were.
C22_ScrollbackComplete ==
    nActive = 0 =>
        history_lines = [i \in 1..Len(screen.scrolled) |->
                            RenderLineData(screen.scrolled[i], cols)]

\* C23: did_mount starts one shell and one reader thread, at most, and when
\* it is through the component has its session and the page its keyboard
\* handler; will_unmount is one call of close(), and when it has returned
\* the session is closed (running false, master descriptor closed and
\* forgotten, process forgotten) and the page has no keyboard handler.
C23_SessionEndsWithView ==
    /\ nSpawn <= 1 /\ nThread <= 1
    /\ spc = "done" => (nSpawn = 1 /\ nThread = 1 /\ shell)
    /\ (spc = "done" /\ ustate = "no") => kb
    /\ ustate = "started" =>
           Cardinality({c \in Callers : op[c] = "unmount" /\ pc[c] # "idle"}) = 1
    /\ ustate = "done" =>
           /\ closeCalled
           /\ ~running /\ master_fd = None /\ ~masterOpen /\ process = None
           /\ ~kb

C23_Witness ==
    /\ ustate = "done" /\ closeCalled /\ ~running /\ ~masterOpen /\ ~kb
    /\ page /\ Len(cbLog) >= 1 /\ \A c \in Callers : pc[c] = "idle"

\* C24: there are as many line controls for the visible buffer as the
\* terminal has rows, which is as many as the screen has, after construction
\* and after every handle_resize, and no display update has indexed a line
\* control that does not exist.
C24_LineControlsMatchRows ==
    /\ Len(buffer_lines) = rows
    /\ screen.lines = rows
    /\ ~uerr

CellAt(line, x) == IF x \in DOMAIN line THEN line[x] ELSE DefaultChar

\* The texts of a list of spans, one after the other.
RECURSIVE SpanTexts(_)
SpanTexts(spans) ==
    IF spans = <<>> THEN <<>> ELSE Head(spans).text \o SpanTexts(Tail(spans))

\* The columns of a row, below ncols, whose rendered colour is not the one
\* of the column before.
StyleChanges(line, ncols) ==
    {x \in 1..(ncols - 1) :
        MapColor(CellAt(line, x).fg) # MapColor(CellAt(line, x - 1).fg)}

\* `spans` is the run-length encoding of `line` by colour.
Merged(line, spans, ncols) ==
    /\ \A k \in 1..(Len(spans) - 1) : spans[k].color # spans[k + 1].color
    /\ Len(spans) <= Cardinality(StyleChanges(line, ncols)) + 1
    /\ SpanTexts(spans) = [x \in 1..ncols |-> CellAt(line, x - 1).data]

C27_RedrawOnlyChanged ==
    [][nActive' < nActive =>
          \A i \in 1..Min(rows, Len(buffer_lines)) :
              LET new == RenderLineData(RowAt(screen, i - 1), cols) IN
                 /\ (i \in redrawn') <=> (new # buffer_lines[i])
                 /\ i \in redrawn' => buffer_lines'[i] = new
                 /\ i \notin redrawn' => buffer_lines'[i] = buffer_lines[i]]_vars

\* a later update changed the first row and left the second as it was
C27_Witness ==
    /\ nActive = 0 /\ Len(fedLog) >= 2 /\ redrawn = {1}
    /\ buffer_lines[2] # NoSpans

\* C28: once a close() has returned (and no other call is under way), no
\* step invokes the output callback: the reader thread delivers neither a
\* chunk nor a diagnostic.
C28_NoCallbackAfterClose ==
    [][(closedOnce /\ \A c \in Callers : pc[c] = "idle") =>
          cbLog' = cbLog]_vars

\* C29: when Popen has raised and the error has left _start_process, both
\* descriptors of the pty pair are closed.
C29_FailedStartLeaksNothing ==
    spc = "failed" => (~slaveOpen /\ ~masterOpen)

\* C30: every text delivered to _on_shell_output has been fed to the
\* decoder once or is waiting, in its turn, to be fed once: the texts fed
\* followed by the texts of the waiting tasks are the texts delivered.
C30_NoOutputLost ==
    cbLog = fedLog \o taskQ
====
